---- MODULE Spec2Model ----
(***************************************************************************)
(* The in-memory record store of the construction-site manager and the     *)
(* API functions of src/services/api.ts that read and mutate it.  Every    *)
(* API function first awaits a timer and then runs one synchronous block.  *)
(* For a function f, the action f is what that block does to the store and *)
(* the operator fResult is the promise it settles, computed in the state   *)
(* in which the block starts.                                              *)
(***************************************************************************)
EXTENDS Integers, Sequences, FiniteSets, TLC

VARIABLES
    sites,             \* api.ts:10  let sites: Site[]
    workers,           \* api.ts:16  let workers: Worker[]
    materials,         \* api.ts:22  let materials: Material[]
    dailyLogs,         \* api.ts:28  let dailyLogs: DailyLog[]
    siteWorkerLogs,    \* api.ts:32  let siteWorkerLogs: SiteWorkerLog[]
    siteMaterialLogs,  \* api.ts:37  let siteMaterialLogs: SiteMaterialLog[]
    galleryImages,     \* api.ts:41  let galleryImages: GalleryImage[]
    uuidCount,         \* number of identifiers crypto.randomUUID() has handed out
    today,             \* the calendar date (UTC) of the wall clock, <<year, month, day>>
    pending,           \* the promises of the calls made without awaiting the one before:
                       \* per slot none, a call waiting for its timer, or a settled call
    page,              \* part_000:13  useState<Page>('home')
    loading,           \* part_000:14  useState(true)
    appSites,          \* part_000:18  useState<Site[]>([]) (sites of the App component)
    currentSiteId,     \* part_000:21  useState<string | null>(null)
    siteDetails,       \* part_000:22  useState<SiteDetailsData | null>(null): {} or {data}
    dashboardData,     \* part_000:23  useState<DashboardData | null>(null): {} or {data}
    requests           \* the reads the App component has started and not yet received,
                       \* in the order in which it started them

store == <<sites, workers, materials, dailyLogs, siteWorkerLogs,
           siteMaterialLogs, galleryImages>>

vars == <<sites, workers, materials, dailyLogs, siteWorkerLogs,
          siteMaterialLogs, galleryImages, uuidCount, today>>

\* state of the App component
app == <<page, loading, appSites, currentSiteId, siteDetails, dashboardData, requests>>

allVars == <<vars, pending, app>>

-----------------------------------------------------------------------------
(* Bounds of the model.                                                    *)

\* identifiers generateUUID may hand out in one run
MaxUUID == 2
\* days the wall clock may advance past the day the module was loaded
MaxDays == 1
\* identifiers generateUUID may hand out in one run in which gallery uploads for
\* site s-1 go on after the other creating calls have stopped
MaxGalleryUUID == 4
\* calls that may wait for their timers at the same time
MaxPending == 2
\* reads the App component may have started and not yet received
MaxInFlight == 2
\* identifiers generateUUID may hand out in one run of calls in flight
MaxConcurrentUUID == 3

-----------------------------------------------------------------------------
(* JavaScript values and array methods.                                    *)

\* null
Null == "<null>"

\* no error: the promise was fulfilled
NoError == "none"

\* !x for the values a WorkerID can take: null, undefined and "" are falsy
Falsy(x) == x = Null \/ x = ""

\* { ...a, ...b }: the fields of b override the fields of a
Spread(a, b) ==
    [k \in (DOMAIN a) \cup (DOMAIN b) |-> IF k \in DOMAIN b THEN b[k] ELSE a[k]]

\* index of the first element of arr that satisfies Test, 0 when there is none
\* (Array.prototype.find returns that element, or undefined)
FindIndex(arr, Test(_)) ==
    IF \E i \in 1..Len(arr) : Test(arr[i])
    THEN CHOOSE i \in 1..Len(arr) :
            Test(arr[i]) /\ \A j \in 1..(i - 1) : ~Test(arr[j])
    ELSE 0

\* arr.map(F)
Map(arr, F(_)) == [i \in 1..Len(arr) |-> F(arr[i])]

\* arr.includes(x)
Includes(arr, x) == \E i \in 1..Len(arr) : arr[i] = x

\* arr.reduce((acc, e) => acc + Num(e), 0)
RECURSIVE SumSeq(_)
SumSeq(nums) ==
    IF nums = <<>> THEN 0 ELSE SumSeq(SubSeq(nums, 1, Len(nums) - 1)) + nums[Len(nums)]

-----------------------------------------------------------------------------
(* Dates.  A date string "YYYY-MM-DD" is the triple <<YYYY, MM, DD>>.       *)

IsLeap(y) == (y % 4 = 0 /\ y % 100 # 0) \/ y % 400 = 0

DaysInMonth(y, m) ==
    IF m = 2 THEN (IF IsLeap(y) THEN 29 ELSE 28)
    ELSE IF m \in {4, 6, 9, 11} THEN 30 ELSE 31

\* leap years in 1..y
LeapsUpTo(y) == (y \div 4) - (y \div 100) + (y \div 400)

DaysBeforeMonth(y, m) ==
    <<0, 31, 59, 90, 120, 151, 181, 212, 243, 273, 304, 334>>[m]
        + (IF m > 2 /\ IsLeap(y) THEN 1 ELSE 0)

\* new Date("YYYY-MM-DD").getTime(), in days since 1970-01-01 (the string is
\* parsed as midnight UTC, so the value is a whole number of days)
getTime(d) ==
    365 * (d[1] - 1970) + (LeapsUpTo(d[1] - 1) - LeapsUpTo(1969))
        + DaysBeforeMonth(d[1], d[2]) + (d[3] - 1)

\* the calendar date after d
NextDay(d) ==
    IF d[3] < DaysInMonth(d[1], d[2]) THEN <<d[1], d[2], d[3] + 1>>
    ELSE IF d[2] < 12 THEN <<d[1], d[2] + 1, 1>>
    ELSE <<d[1] + 1, 1, 1>>

\* the calendar date before d
PrevDay(d) ==
    IF d[3] > 1 THEN <<d[1], d[2], d[3] - 1>>
    ELSE IF d[2] > 1 THEN <<d[1], d[2] - 1, DaysInMonth(d[1], d[2] - 1)>>
    ELSE <<d[1] - 1, 12, 31>>

\* the date on which the module is loaded (the seeded logs carry it)
LoadDate == <<2023, 10, 31>>

\* The host's time zone, in minutes east of UTC, and the time of day (minutes
\* after midnight UTC) at which a call runs.  Dates are written and compared in
\* UTC; Date.prototype.getMonth and getFullYear read the local calendar.
TimeZones == {0 - 300, 0, 330}
TimesOfDay == {0, 720, 1140}
Clocks == [utcOffset : TimeZones, minute : TimesOfDay]

\* the local calendar date of the instant `minute` minutes after midnight UTC of
\* the UTC date d
LocalDate(d, minute, utcOffset) ==
    IF minute + utcOffset < 0 THEN PrevDay(d)
    ELSE IF minute + utcOffset >= 1440 THEN NextDay(d)
    ELSE d

\* date.getMonth() (0 is January) and date.getFullYear() of that instant
getMonth(d, minute, utcOffset) == LocalDate(d, minute, utcOffset)[2] - 1
getFullYear(d, minute, utcOffset) == LocalDate(d, minute, utcOffset)[1]

\* new Date().toISOString().split('T')[0]
getTodayDateString == today

\* arr.sort((a, b) => new Date(Key(b)).getTime() - new Date(Key(a)).getTime()):
\* newest first, elements of equal date in their original order (the sort is stable)
SortPosition(arr, Key(_), i) ==
    1 + Cardinality({j \in 1..Len(arr) : getTime(Key(arr[j])) > getTime(Key(arr[i]))})
      + Cardinality({j \in 1..(i - 1) : getTime(Key(arr[j])) = getTime(Key(arr[i]))})

SortByDateDesc(arr, Key(_)) ==
    [p \in 1..Len(arr) |->
        arr[CHOOSE i \in 1..Len(arr) : SortPosition(arr, Key, i) = p]]

DateOf(l) == l.Date
DateUploadedOf(g) == g.DateUploaded

-----------------------------------------------------------------------------
(* Identifiers.                                                            *)

\* crypto.randomUUID(): the n-th identifier handed out; no two calls return
\* the same identifier
generateUUID(n) == "uuid-" \o ToString(n)

-----------------------------------------------------------------------------
(* The mock database.                                                      *)

InitSites == <<
    [SiteID |-> "s-1", SiteName |-> "Greenwood Villa", Location |-> "Koramangala, Bangalore",
     OwnerName |-> "Mr. Sharma", OwnerContact |-> "9876543210", Budget |-> 5000000,
     TotalArea |-> "2400 sqft", Status |-> "Online", AmountReceived |-> 2000000],
    [SiteID |-> "s-2", SiteName |-> "Prestige Apartments", Location |-> "Whitefield, Bangalore",
     OwnerName |-> "Ms. Gupta", OwnerContact |-> "8765432109", Budget |-> 12000000,
     TotalArea |-> "10000 sqft", Status |-> "Online", AmountReceived |-> 5000000],
    [SiteID |-> "s-3", SiteName |-> "Commercial Complex", Location |-> "Indiranagar, Bangalore",
     OwnerName |-> "BuildCorp Inc.", OwnerContact |-> "7654321098", Budget |-> 25000000,
     TotalArea |-> "15000 sqft", Status |-> "Offline", AmountReceived |-> 10000000] >>

InitWorkers == <<
    [WorkerID |-> "w-1", WorkerName |-> "Ramesh Kumar", DefaultDailyWage |-> 800],
    [WorkerID |-> "w-2", WorkerName |-> "Suresh Singh", Contact |-> "9988776655",
     DefaultDailyWage |-> 950],
    [WorkerID |-> "w-3", WorkerName |-> "Vijay Prasad", DefaultDailyWage |-> 750] >>

InitMaterials == <<
    [MaterialID |-> "m-1", MaterialName |-> "Cement", Unit |-> "bag", DefaultValue |-> 450],
    [MaterialID |-> "m-2", MaterialName |-> "Steel Rod (12mm)", Unit |-> "kg", DefaultValue |-> 85],
    [MaterialID |-> "m-3", MaterialName |-> "Bricks", Unit |-> "nos", DefaultValue |-> 12] >>

InitDailyLogs == <<
    [LogID |-> "dl-1", SiteID |-> "s-1", Date |-> <<2023, 10, 26>>,
     LogEntry |-> "Foundation work started. Excavation complete."] >>

InitSiteWorkerLogs == <<
    [LogID |-> "swl-1", SiteID |-> "s-1", Date |-> LoadDate, WorkerID |-> "w-1",
     WorkerName |-> "Ramesh Kumar", SalaryPaid |-> 800, PaidStatus |-> TRUE],
    [LogID |-> "swl-2", SiteID |-> "s-2", Date |-> LoadDate, WorkerID |-> "w-2",
     WorkerName |-> "Suresh Singh", SalaryPaid |-> 0, PaidStatus |-> FALSE] >>

InitSiteMaterialLogs == <<
    [LogID |-> "sml-1", SiteID |-> "s-1", Date |-> LoadDate, MaterialID |-> "m-1",
     MaterialName |-> "Cement", Unit |-> "bag", QuantityUsed |-> 50, DefaultValue |-> 450,
     TotalCost |-> 22500] >>

Init ==
    /\ sites = InitSites
    /\ workers = InitWorkers
    /\ materials = InitMaterials
    /\ dailyLogs = InitDailyLogs
    /\ siteWorkerLogs = InitSiteWorkerLogs
    /\ siteMaterialLogs = InitSiteMaterialLogs
    /\ galleryImages = <<>>
    /\ uuidCount = 0
    /\ today = LoadDate
    /\ pending = [slot \in 1..MaxPending |-> [state |-> "none"]]
    /\ page = "home"
    /\ loading = TRUE
    /\ appSites = <<>>
    /\ currentSiteId = Null
    /\ siteDetails = {}
    /\ dashboardData = {}
    /\ requests = <<[op |-> "getInitialData", siteId |-> Null]>>

\* a fulfilled and a rejected promise
Fulfilled(value) == [error |-> NoError, value |-> value]
Rejected(message) == [error |-> message]

-----------------------------------------------------------------------------
(* Arguments the callers pass.  A payload may carry more fields than its   *)
(* declared type names (TypeScript object types are open), so some of the  *)
(* payloads below carry the fields the API is meant to set itself.         *)

\* a site ID that matches no site
UnknownSiteId == "s-9"
SiteIdArgs == {"s-1", UnknownSiteId}
StatusArgs == {"Online", "Offline"}

SiteData ==
    [SiteName |-> "Lake View", Location |-> "HSR Layout, Bangalore", OwnerName |-> "Mr. Rao",
     OwnerContact |-> "9000000001", Budget |-> 5000000, TotalArea |-> "1200 sqft"]
SiteDataArgs ==
    {SiteData,
     Spread(SiteData, [SiteID |-> "s-1", Status |-> "Offline", AmountReceived |-> 700])}

WorkerData == [WorkerName |-> "Anil Das", DefaultDailyWage |-> 600]
WorkerDataArgs == {WorkerData, Spread(WorkerData, [WorkerID |-> "w-1"])}

MaterialData == [MaterialName |-> "Sand", Unit |-> "cft", DefaultValue |-> 60]
MaterialDataArgs == {MaterialData, Spread(MaterialData, [MaterialID |-> "m-1"])}

DailyLogArgs ==
    {[SiteID |-> s, Date |-> today, LogEntry |-> "Plastering"] : s \in SiteIdArgs}
        \cup {[SiteID |-> "s-1", Date |-> today, LogEntry |-> "Plastering", LogID |-> "dl-1"]}

\* newWorker is null or a worker payload: a set of at most one payload
DailyWorkerArgs ==
    {[SiteID |-> s, Date |-> today, WorkerID |-> w, WorkerName |-> "Ramesh Kumar",
      newWorker |-> n] :
        s \in SiteIdArgs, w \in {Null, "w-1"}, n \in {{}, {WorkerData}}}

DailyMaterial(s) ==
    [SiteID |-> s, Date |-> today, MaterialID |-> "m-1", MaterialName |-> "Cement",
     Unit |-> "bag", QuantityUsed |-> 10, DefaultValue |-> 100]
DailyMaterialArgs ==
    {DailyMaterial(s) : s \in SiteIdArgs}
        \cup {Spread(DailyMaterial("s-1"), [TotalCost |-> 1, LogID |-> "sml-1"])}

\* a log ID that matches no worker log
UnknownLogId == "swl-9"
SalaryUpdateArgs ==
    {[logId |-> l, amount |-> 500, status |-> st] :
        l \in {"swl-2", UnknownLogId}, st \in BOOLEAN}

FileTypeArgs == {"agreement", "plan", "gallery", "other"}

-----------------------------------------------------------------------------
(* Read operations: each is a function of the store and of the clock.      *)

siteIndex(siteId) == FindIndex(sites, LAMBDA s : s.SiteID = siteId)

\* arr.filter(l => l.SiteID === siteId)
ofSiteUnfiltered(arr, siteId) == arr
ofSite(arr, siteId) == SelectSeq(arr, LAMBDA l : l.SiteID = siteId)

\* getSiteDetails: .sort((a, b) => new Date(b.DateUploaded).getTime()
\*                                - new Date(a.DateUploaded).getTime())
sortedByDateUploadedKeepingOrder(arr) == arr
sortedByDateUploaded(arr) == SortByDateDesc(arr, DateUploadedOf)

\* getSiteDetails: the rejected or fulfilled promise
SiteDetailsData(siteId) ==
    IF siteIndex(siteId) = 0 THEN Rejected("Site not found")
    ELSE
      LET logs == SortByDateDesc(ofSite(dailyLogs, siteId), DateOf)
          siteWorkers == SortByDateDesc(ofSite(siteWorkerLogs, siteId), DateOf)
          siteMaterials == SortByDateDesc(ofSite(siteMaterialLogs, siteId), DateOf)
          gallery == sortedByDateUploaded(ofSite(galleryImages, siteId))
          workerExpense == SumSeq(Map(siteWorkers, LAMBDA l : l.SalaryPaid))
          materialExpense == SumSeq(Map(siteMaterials, LAMBDA l : l.TotalCost))
      IN  Fulfilled(
            [site |-> sites[siteIndex(siteId)],
             logs |-> logs,
             workerLogs |-> siteWorkers,
             materialLogs |-> siteMaterials,
             gallery |-> gallery,
             expenses |-> [totalExpenses |-> workerExpense + materialExpense,
                           workerExpense |-> workerExpense,
                           materialExpense |-> materialExpense]])

\* site?.SiteName || 'Unknown Site'
SiteNameOf(siteId) ==
    IF siteIndex(siteId) = 0 \/ sites[siteIndex(siteId)].SiteName = ""
    THEN "Unknown Site" ELSE sites[siteIndex(siteId)].SiteName

\* worker?.DefaultDailyWage || 0
DefaultDailyWageOf(workerId) ==
    LET i == FindIndex(workers, LAMBDA w : w.WorkerID = workerId)
    IN  IF i = 0 THEN 0 ELSE workers[i].DefaultDailyWage

\* getTodayWorkers: sites.filter(s => s.Status === 'Online').map(s => s.SiteID)
onlineSiteIdsUnfiltered == Map(sites, LAMBDA s : s.SiteID)
onlineSiteIds ==
    Map(SelectSeq(sites, LAMBDA s : s.Status = "Online"), LAMBDA s : s.SiteID)

\* getTodayWorkers
TodayWorkers ==
    Map(SelectSeq(siteWorkerLogs,
            LAMBDA log : log.Date = getTodayDateString
                         /\ Includes(onlineSiteIds, log.SiteID)),
        LAMBDA log : Spread(log, [SiteName |-> SiteNameOf(log.SiteID),
                                  DefaultDailyWage |-> DefaultDailyWageOf(log.WorkerID)]))

\* getOverallMaterialsLog
OverallMaterialLogsUnsorted ==
    Map(siteMaterialLogs, LAMBDA log : Spread(log, [SiteName |-> SiteNameOf(log.SiteID)]))
OverallMaterialLogs ==
    Map(SortByDateDesc(siteMaterialLogs, DateOf),
        LAMBDA log : Spread(log, [SiteName |-> SiteNameOf(log.SiteID)]))

\* getProfileDashboardData: arr.filter(l => l.Date === todayStr)
datedTodayOnlineOnly(arr, todayStr) ==
    SelectSeq(arr, LAMBDA l : l.Date = todayStr /\ Includes(onlineSiteIds, l.SiteID))
datedToday(arr, todayStr) == SelectSeq(arr, LAMBDA l : l.Date = todayStr)

\* getProfileDashboardData: logDate.getMonth() === currentMonth &&
\* logDate.getFullYear() === currentYear, where logDate = new Date(log.Date) is
\* midnight UTC of the log's date and today = new Date() is the instant of the call
inCurrentMonth(date, clock) ==
    /\ getMonth(date, 0, clock.utcOffset) = getMonth(today, clock.minute, clock.utcOffset)
    /\ getFullYear(date, 0, clock.utcOffset)
          = getFullYear(today, clock.minute, clock.utcOffset)

\* getProfileDashboardData, called at the given time of day in the given time zone
DashboardData(clock) ==
    LET todayStr == getTodayDateString
        inMonth(l) == inCurrentMonth(l.Date, clock)
        onlineSites == Len(SelectSeq(sites, LAMBDA s : s.Status = "Online"))
        expenseOf(arr, Amount(_)) == SumSeq(Map(arr, Amount))
    IN  [onlineSites |-> onlineSites,
         offlineSites |-> Len(sites) - onlineSites,
         todayWorkers |-> Len(datedToday(siteWorkerLogs, todayStr)),
         todayMaterials |-> Len(datedToday(siteMaterialLogs, todayStr)),
         todayExpense |->
            expenseOf(SelectSeq(siteWorkerLogs, LAMBDA l : l.Date = todayStr),
                      LAMBDA l : l.SalaryPaid)
            + expenseOf(SelectSeq(siteMaterialLogs, LAMBDA l : l.Date = todayStr),
                        LAMBDA l : l.TotalCost),
         monthExpense |->
            expenseOf(SelectSeq(siteWorkerLogs, inMonth), LAMBDA l : l.SalaryPaid)
            + expenseOf(SelectSeq(siteMaterialLogs, inMonth), LAMBDA l : l.TotalCost)]

\* the read operations write to no collection (filter and [...] copy before sort)
getInitialDataResult ==
    Fulfilled([sites |-> sites, workers |-> workers, materials |-> materials])

getInitialData == UNCHANGED vars

getSiteDetailsResult(siteId) == SiteDetailsData(siteId)

getSiteDetails(siteId) == UNCHANGED vars

getTodayWorkersResult == Fulfilled(TodayWorkers)

getTodayWorkers == UNCHANGED vars

getOverallMaterialsLogResult == Fulfilled(OverallMaterialLogs)

\* getOverallMaterialsLog: the siteMaterialLogs array after the call; sort() orders
\* its receiver in place, and the receiver is the copy [...siteMaterialLogs]
siteMaterialLogsSortedInPlace == SortByDateDesc(siteMaterialLogs, DateOf)
siteMaterialLogsAfterSortingCopy == siteMaterialLogs

getOverallMaterialsLog ==
    /\ siteMaterialLogs' = siteMaterialLogsAfterSortingCopy
    /\ UNCHANGED <<sites, workers, materials, dailyLogs, siteWorkerLogs, galleryImages,
                   uuidCount, today>>

getProfileDashboardDataResult(clock) == Fulfilled(DashboardData(clock))

getProfileDashboardData == UNCHANGED vars

-----------------------------------------------------------------------------
(* Mutation operations.                                                    *)

\* addNewSite: { ...siteData, SiteID: generateUUID(), Status: 'Online', AmountReceived: 0 }
newSiteKeepingPayload(siteData, n) ==
    Spread([SiteID |-> generateUUID(n), Status |-> "Online", AmountReceived |-> 0], siteData)
newSite(siteData, n) ==
    Spread(siteData, [SiteID |-> generateUUID(n), Status |-> "Online", AmountReceived |-> 0])

addNewSiteResult(siteData) == Fulfilled(newSite(siteData, uuidCount + 1))

addNewSite(siteData) ==
    /\ uuidCount + 1 <= MaxUUID
    /\ sites' = Append(sites, newSite(siteData, uuidCount + 1))
    /\ uuidCount' = uuidCount + 1
    /\ UNCHANGED <<workers, materials, dailyLogs, siteWorkerLogs, siteMaterialLogs,
                   galleryImages, today>>

\* updateSiteStatus: the sites array after the call
sitesAfterStatusEverySite(siteId, status) ==
    [i \in 1..Len(sites) |-> Spread(sites[i], [Status |-> status])]
sitesAfterStatus(siteId, status) ==
    IF siteIndex(siteId) # 0
    THEN [sites EXCEPT ![siteIndex(siteId)] = Spread(@, [Status |-> status])]
    ELSE sites

updateSiteStatusResult(siteId, status) ==
    IF siteIndex(siteId) # 0 THEN Fulfilled([success |-> TRUE])
    ELSE Rejected("Site not found")

updateSiteStatus(siteId, status) ==
    /\ sites' = sitesAfterStatus(siteId, status)
    /\ UNCHANGED <<workers, materials, dailyLogs, siteWorkerLogs, siteMaterialLogs,
                   galleryImages, uuidCount, today>>

\* addNewWorker: { ...workerData, WorkerID: generateUUID() }
newWorker(workerData, n) == Spread(workerData, [WorkerID |-> generateUUID(n)])

addNewWorkerResult(workerData) == Fulfilled(newWorker(workerData, uuidCount + 1))

\* (limit: the identifiers generateUUID may have handed out after the call)
addNewWorkerWithin(limit, workerData) ==
    /\ uuidCount + 1 <= limit
    /\ workers' = Append(workers, newWorker(workerData, uuidCount + 1))
    /\ uuidCount' = uuidCount + 1
    /\ UNCHANGED <<sites, materials, dailyLogs, siteWorkerLogs, siteMaterialLogs,
                   galleryImages, today>>

addNewWorker(workerData) == addNewWorkerWithin(MaxUUID, workerData)

\* addNewMaterial: { ...materialData, MaterialID: generateUUID() }
newMaterial(materialData, n) == Spread(materialData, [MaterialID |-> generateUUID(n)])

addNewMaterialResult(materialData) == Fulfilled(newMaterial(materialData, uuidCount + 1))

addNewMaterial(materialData) ==
    /\ uuidCount + 1 <= MaxUUID
    /\ materials' = Append(materials, newMaterial(materialData, uuidCount + 1))
    /\ uuidCount' = uuidCount + 1
    /\ UNCHANGED <<sites, workers, dailyLogs, siteWorkerLogs, siteMaterialLogs,
                   galleryImages, today>>

\* addDailyLog: { ...logData, LogID: generateUUID() }
newDailyLogKeepingPayload(logData, n) == Spread([LogID |-> generateUUID(n)], logData)
newDailyLog(logData, n) == Spread(logData, [LogID |-> generateUUID(n)])

addDailyLogResult(logData) == Fulfilled(newDailyLog(logData, uuidCount + 1))

addDailyLogWithin(limit, logData) ==
    /\ uuidCount + 1 <= limit
    /\ dailyLogs' = Append(dailyLogs, newDailyLog(logData, uuidCount + 1))
    /\ uuidCount' = uuidCount + 1
    /\ UNCHANGED <<sites, workers, materials, siteWorkerLogs, siteMaterialLogs,
                   galleryImages, today>>

addDailyLog(logData) == addDailyLogWithin(MaxUUID, logData)

\* addDailyWorker: the worker log it builds
workerLog(logData, workerId, n) ==
    [SiteID |-> logData.SiteID, Date |-> logData.Date, WorkerID |-> workerId,
     WorkerName |-> logData.WorkerName, SalaryPaid |-> 0, PaidStatus |-> FALSE,
     LogID |-> generateUUID(n)]

\* addDailyWorker: true when a worker payload was given (if (logData.newWorker))
hasNewWorkerWithoutWorkerId(logData) ==
    logData.newWorker # {} /\ Falsy(logData.WorkerID)
hasNewWorker(logData) == logData.newWorker # {}

\* addDailyWorker: true when it throws (if (!workerId) throw ...); the generated
\* ID of a worker registered from the payload is never falsy
workerIdMissingUnchecked(logData) == FALSE
workerIdMissing(logData) == ~hasNewWorker(logData) /\ Falsy(logData.WorkerID)

\* addDailyWorker: the worker addNewWorker registers from the payload
newWorkerObj(logData) ==
    newWorker(CHOOSE w \in logData.newWorker : TRUE, uuidCount + 1)

addDailyWorkerResult(logData) ==
    IF workerIdMissing(logData) THEN Rejected("Worker ID is missing")
    ELSE IF hasNewWorker(logData)
    THEN Fulfilled([newLog |-> workerLog(logData, newWorkerObj(logData).WorkerID,
                                         uuidCount + 2),
                    newWorker |-> {newWorkerObj(logData)}])
    ELSE Fulfilled([newLog |-> workerLog(logData, logData.WorkerID, uuidCount + 1),
                    newWorker |-> {}])

\* addDailyWorker with a worker payload: addNewWorker registers the worker (one
\* identifier), then the log is appended (a second identifier); the two pushes
\* run in the same turn of the event loop
addDailyWorkerNew(limit, logData) ==
    /\ hasNewWorker(logData)
    /\ uuidCount + 2 <= limit
    /\ workers' = Append(workers, newWorkerObj(logData))
    /\ siteWorkerLogs' =
          Append(siteWorkerLogs,
                 workerLog(logData, newWorkerObj(logData).WorkerID, uuidCount + 2))
    /\ uuidCount' = uuidCount + 2
    /\ UNCHANGED <<sites, materials, dailyLogs, siteMaterialLogs, galleryImages, today>>

addDailyWorkerExisting(limit, logData) ==
    /\ ~hasNewWorker(logData)
    /\ ~workerIdMissing(logData)
    /\ uuidCount + 1 <= limit
    /\ siteWorkerLogs' =
          Append(siteWorkerLogs, workerLog(logData, logData.WorkerID, uuidCount + 1))
    /\ uuidCount' = uuidCount + 1
    /\ UNCHANGED <<sites, workers, materials, dailyLogs, siteMaterialLogs,
                   galleryImages, today>>

addDailyWorkerMissing(logData) ==
    /\ workerIdMissing(logData)
    /\ UNCHANGED vars

addDailyWorkerWithin(limit, logData) ==
    \/ addDailyWorkerNew(limit, logData)
    \/ addDailyWorkerExisting(limit, logData)
    \/ addDailyWorkerMissing(logData)

addDailyWorker(logData) == addDailyWorkerWithin(MaxUUID, logData)

\* addDailyMaterial: { ...logData, TotalCost: totalCost, LogID: generateUUID() }
materialLogKeepingPayload(logData, n) ==
    Spread([TotalCost |-> logData.QuantityUsed * logData.DefaultValue,
            LogID |-> generateUUID(n)], logData)
materialLog(logData, n) ==
    Spread(logData, [TotalCost |-> logData.QuantityUsed * logData.DefaultValue,
                     LogID |-> generateUUID(n)])

addDailyMaterialResult(logData) == Fulfilled(materialLog(logData, uuidCount + 1))

addDailyMaterialWithin(limit, logData) ==
    /\ uuidCount + 1 <= limit
    /\ siteMaterialLogs' = Append(siteMaterialLogs, materialLog(logData, uuidCount + 1))
    /\ uuidCount' = uuidCount + 1
    /\ UNCHANGED <<sites, workers, materials, dailyLogs, siteWorkerLogs,
                   galleryImages, today>>

addDailyMaterial(logData) == addDailyMaterialWithin(MaxUUID, logData)

\* updateWorkerSalary: siteWorkerLogs.find(l => l.LogID === update.logId)
workerLogIndexOrFirst(logId) ==
    IF FindIndex(siteWorkerLogs, LAMBDA l : l.LogID = logId) = 0 THEN 1
    ELSE FindIndex(siteWorkerLogs, LAMBDA l : l.LogID = logId)
workerLogIndex(logId) == FindIndex(siteWorkerLogs, LAMBDA l : l.LogID = logId)

\* updateWorkerSalary: the siteWorkerLogs array after the call
workerLogsAfterSalaryRedated(update) ==
    IF workerLogIndex(update.logId) # 0
    THEN [siteWorkerLogs EXCEPT ![workerLogIndex(update.logId)] =
            Spread(@, [SalaryPaid |-> update.amount, PaidStatus |-> update.status,
                       Date |-> today])]
    ELSE siteWorkerLogs
workerLogsAfterSalary(update) ==
    IF workerLogIndex(update.logId) # 0
    THEN [siteWorkerLogs EXCEPT ![workerLogIndex(update.logId)] =
            Spread(@, [SalaryPaid |-> update.amount, PaidStatus |-> update.status])]
    ELSE siteWorkerLogs

updateWorkerSalaryResult(update) ==
    IF workerLogIndex(update.logId) # 0 THEN Fulfilled([success |-> TRUE])
    ELSE Rejected("Worker log not found")

updateWorkerSalary(update) ==
    /\ siteWorkerLogs' = workerLogsAfterSalary(update)
    /\ UNCHANGED <<sites, workers, materials, dailyLogs, siteMaterialLogs,
                   galleryImages, uuidCount, today>>

\* uploadFile: `file-${generateUUID()}`
fileIdOf(n) == "file-" \o generateUUID(n)

\* uploadFile: the gallery image it appends
galleryImage(siteId, description, n) ==
    [ImageID |-> generateUUID(n + 1), SiteID |-> siteId, DateUploaded |-> getTodayDateString,
     ImageFileID |-> fileIdOf(n),
     ImageUrl |-> "https://picsum.photos/seed/" \o fileIdOf(n) \o "/400/400",
     Description |-> description]

\* uploadFile: true when the site lookup finds a site
uploadSiteFoundUnchecked(siteId) == TRUE
uploadSiteFound(siteId) == siteIndex(siteId) # 0

\* uploadFile: the sites array after an upload of category agreement, plan or
\* any other string that is not gallery (which writes nothing)
sitesAfterUploadKeepingFirst(siteId, fileType, n) ==
    IF siteIndex(siteId) = 0 THEN sites
    ELSE IF fileType = "agreement" /\ "AgreementFileID" \notin DOMAIN sites[siteIndex(siteId)]
    THEN [sites EXCEPT ![siteIndex(siteId)] = Spread(@, [AgreementFileID |-> fileIdOf(n)])]
    ELSE IF fileType = "plan" /\ "SitePlanFileID" \notin DOMAIN sites[siteIndex(siteId)]
    THEN [sites EXCEPT ![siteIndex(siteId)] = Spread(@, [SitePlanFileID |-> fileIdOf(n)])]
    ELSE sites
sitesAfterUpload(siteId, fileType, n) ==
    IF siteIndex(siteId) = 0 THEN sites
    ELSE IF fileType = "agreement"
    THEN [sites EXCEPT ![siteIndex(siteId)] = Spread(@, [AgreementFileID |-> fileIdOf(n)])]
    ELSE IF fileType = "plan"
    THEN [sites EXCEPT ![siteIndex(siteId)] = Spread(@, [SitePlanFileID |-> fileIdOf(n)])]
    ELSE sites

uploadFileResult(siteId, fileType, description) ==
    IF uploadSiteFound(siteId) THEN Fulfilled([success |-> TRUE])
    ELSE Rejected("Site not found")

uploadFileNotFound(siteId, fileType, description) ==
    /\ ~uploadSiteFound(siteId)
    /\ UNCHANGED vars

uploadFileToSite(siteId, fileType, description) ==
    /\ uploadSiteFound(siteId)
    /\ fileType # "gallery"
    /\ uuidCount + 1 <= MaxUUID
    /\ sites' = sitesAfterUpload(siteId, fileType, uuidCount + 1)
    /\ uuidCount' = uuidCount + 1
    /\ UNCHANGED <<workers, materials, dailyLogs, siteWorkerLogs, siteMaterialLogs,
                   galleryImages, today>>

\* (limit: the identifiers generateUUID may have handed out after the call)
uploadFileToGalleryWithin(limit, siteId, fileType, description) ==
    /\ uploadSiteFound(siteId)
    /\ fileType = "gallery"
    /\ uuidCount + 2 <= limit
    /\ galleryImages' = Append(galleryImages, galleryImage(siteId, description, uuidCount + 1))
    /\ uuidCount' = uuidCount + 2
    /\ UNCHANGED <<sites, workers, materials, dailyLogs, siteWorkerLogs, siteMaterialLogs,
                   today>>

uploadFileToGallery(siteId, fileType, description) ==
    uploadFileToGalleryWithin(MaxUUID, siteId, fileType, description)

uploadFile(siteId, fileType, description) ==
    \/ uploadFileNotFound(siteId, fileType, description)
    \/ uploadFileToSite(siteId, fileType, description)
    \/ uploadFileToGallery(siteId, fileType, description)

-----------------------------------------------------------------------------
(* The wall clock.                                                         *)

\* midnight (UTC) passes
Tick ==
    /\ getTime(today) - getTime(LoadDate) < MaxDays
    /\ today' = NextDay(today)
    /\ UNCHANGED <<store, uuidCount>>

-----------------------------------------------------------------------------

Description == "Mock Description"

\* a caller that awaits every call before it makes the next leaves no promise
\* pending
Next ==
    \/ /\ getInitialData
       /\ UNCHANGED <<pending, app>>
    \/ /\ \E siteData \in SiteDataArgs : addNewSite(siteData)
       /\ UNCHANGED <<pending, app>>
    \/ /\ \E siteId \in SiteIdArgs, status \in StatusArgs : updateSiteStatus(siteId, status)
       /\ UNCHANGED <<pending, app>>
    \/ /\ \E siteId \in SiteIdArgs : getSiteDetails(siteId)
       /\ UNCHANGED <<pending, app>>
    \/ /\ getTodayWorkers
       /\ UNCHANGED <<pending, app>>
    \/ /\ getOverallMaterialsLog
       /\ UNCHANGED <<pending, app>>
    \/ /\ \E workerData \in WorkerDataArgs : addNewWorker(workerData)
       /\ UNCHANGED <<pending, app>>
    \/ /\ \E materialData \in MaterialDataArgs : addNewMaterial(materialData)
       /\ UNCHANGED <<pending, app>>
    \/ /\ \E logData \in DailyLogArgs : addDailyLog(logData)
       /\ UNCHANGED <<pending, app>>
    \/ /\ \E logData \in DailyWorkerArgs : addDailyWorker(logData)
       /\ UNCHANGED <<pending, app>>
    \/ /\ \E logData \in DailyMaterialArgs : addDailyMaterial(logData)
       /\ UNCHANGED <<pending, app>>
    \/ /\ \E update \in SalaryUpdateArgs : updateWorkerSalary(update)
       /\ UNCHANGED <<pending, app>>
    \/ /\ \E siteId \in SiteIdArgs, fileType \in FileTypeArgs :
               uploadFile(siteId, fileType, Description)
       /\ UNCHANGED <<pending, app>>
    \/ /\ getProfileDashboardData
       /\ UNCHANGED <<pending, app>>
    \/ /\ Tick
       /\ UNCHANGED <<pending, app>>

Spec == Init /\ [][Next]_allVars

\* a further gallery upload for site s-1
uploadMoreToGallery ==
    uploadFileToGalleryWithin(MaxGalleryUUID, "s-1", "gallery", Description)

\* the runs of Spec, continued by gallery uploads for site s-1
NextWithGallery == Next \/ (uploadMoreToGallery /\ UNCHANGED <<pending, app>>)

SpecWithGallery == Init /\ [][NextWithGallery]_allVars

-----------------------------------------------------------------------------
(* Calls in flight.  A caller that does not await a call before it makes    *)
(* the next has several promises at once.  Every API function first awaits  *)
(* its timer and touches the store only in the block that runs when the     *)
(* timer fires; that block runs to completion before any other timer fires. *)

Slots == 1..MaxPending

\* the creating calls made without awaiting: arguments are fixed when the call
\* is made
ConcurrentCalls ==
    {[state |-> "pending", op |-> "addNewWorker", args |-> WorkerData,
      awaiting |-> "apiDelay"],
     [state |-> "pending", op |-> "addDailyLog",
      args |-> [SiteID |-> "s-1", Date |-> today, LogEntry |-> "Plastering"],
      awaiting |-> "apiDelay"],
     [state |-> "pending", op |-> "addDailyMaterial", args |-> DailyMaterial("s-1"),
      awaiting |-> "apiDelay"]}
    \cup {[state |-> "pending", op |-> "addDailyWorker", args |-> l,
           awaiting |-> "apiDelay"] :
            l \in {a \in DailyWorkerArgs :
                    a.SiteID = "s-1" /\ (a.WorkerID = Null) = (a.newWorker # {})}}

\* the block of the call that runs when its timer fires
Apply(call) ==
    \/ call.op = "addNewWorker" /\ addNewWorkerWithin(MaxConcurrentUUID, call.args)
    \/ call.op = "addDailyLog" /\ addDailyLogWithin(MaxConcurrentUUID, call.args)
    \/ call.op = "addDailyMaterial" /\ addDailyMaterialWithin(MaxConcurrentUUID, call.args)
    \/ call.op = "addDailyWorker" /\ addDailyWorkerWithin(MaxConcurrentUUID, call.args)

\* the promise that block settles
ResultOf(call) ==
    IF call.op = "addNewWorker" THEN addNewWorkerResult(call.args)
    ELSE IF call.op = "addDailyLog" THEN addDailyLogResult(call.args)
    ELSE IF call.op = "addDailyMaterial" THEN addDailyMaterialResult(call.args)
    ELSE addDailyWorkerResult(call.args)

IsPending(slot) == pending[slot].state = "pending"
IsSettled(slot) == pending[slot].state = "settled"

\* addDailyWorker with a worker payload awaits a second timer, that of addNewWorker
AwaitsAddNewWorker(call) == call.op = "addDailyWorker" /\ hasNewWorker(call.args)

\* a call is made: it starts its timer and returns a pending promise
Call(slot, call) ==
    /\ pending[slot].state = "none"
    /\ pending' = [pending EXCEPT ![slot] = call]
    /\ UNCHANGED vars

\* addDailyWorker: what the block between the timer of addDailyWorker and the
\* timer of addNewWorker does to workers: nothing, the worker is pushed when the
\* second timer has fired
workersAfterEnteringRegisteredEarly(call) ==
    Append(workers, newWorker(CHOOSE w \in call.args.newWorker : TRUE, uuidCount + 1))
workersAfterEntering(call) == workers

\* addDailyWorker with a worker payload: its own timer fires, it calls
\* addNewWorker and awaits the timer of that call
EnterAddNewWorker(slot) ==
    /\ IsPending(slot)
    /\ AwaitsAddNewWorker(pending[slot])
    /\ pending[slot].awaiting = "apiDelay"
    /\ pending' = [pending EXCEPT ![slot].awaiting = "addNewWorker"]
    /\ workers' = workersAfterEntering(pending[slot])
    /\ UNCHANGED <<sites, materials, dailyLogs, siteWorkerLogs, siteMaterialLogs,
                   galleryImages, uuidCount, today>>

\* the last timer of the call fires: its block runs and the promise settles
Complete(slot) ==
    /\ IsPending(slot)
    /\ AwaitsAddNewWorker(pending[slot]) => pending[slot].awaiting = "addNewWorker"
    /\ Apply(pending[slot])
    /\ pending' = [pending EXCEPT ![slot] =
                      [state |-> "settled", op |-> pending[slot].op,
                       settled |-> ResultOf(pending[slot])]]

\* the caller takes the settled promise
Take(slot) ==
    /\ IsSettled(slot)
    /\ pending' = [pending EXCEPT ![slot] = [state |-> "none"]]
    /\ UNCHANGED vars

NextConcurrent ==
    \/ /\ \E slot \in Slots : \E call \in ConcurrentCalls : Call(slot, call)
       /\ UNCHANGED app
    \/ /\ \E slot \in Slots : EnterAddNewWorker(slot)
       /\ UNCHANGED app
    \/ /\ \E slot \in Slots : Complete(slot)
       /\ UNCHANGED app
    \/ /\ \E slot \in Slots : Take(slot)
       /\ UNCHANGED app

SpecConcurrent == Init /\ [][NextConcurrent]_allVars

-----------------------------------------------------------------------------
(* The App component: navigation between the pages and the responses of    *)
(* the reads it starts.                                                     *)

\* setTimeout delay of the read behind a request of the App component (the two
\* loads of loadInitialData run side by side, each with apiDelay(400))
apiDelayOf(op) ==
    IF op = "getSiteDetails" THEN 600
    ELSE IF op = "getProfileDashboardData" THEN 500
    ELSE IF op = "getInitialData" THEN 500
    ELSE 400

Request(op, siteId) == [op |-> op, siteId |-> siteId]

\* the timer of request i can fire now: no request started before it has a timer
\* that is set to fire no later
TimerMayFire(i) ==
    \A j \in 1..(i - 1) : apiDelayOf(requests[j].op) > apiDelayOf(requests[i].op)

WithoutRequest(i) == SubSeq(requests, 1, i - 1) \o SubSeq(requests, i + 1, Len(requests))

\* handleNavigate(newPage, siteId)
handleNavigate(newPage, siteId) ==
    LET toSite == newPage = "site-details" /\ ~Falsy(siteId)
        toProfile == newPage = "profile"
    IN  /\ (toSite \/ toProfile) => Len(requests) < MaxInFlight
        /\ page' = newPage
        /\ currentSiteId' = IF newPage = "home" THEN Null ELSE siteId
        /\ loading' = IF toSite \/ toProfile THEN TRUE ELSE loading
        /\ siteDetails' = IF newPage = "home" THEN {} ELSE siteDetails
        /\ requests' =
              IF toSite THEN Append(requests, Request("getSiteDetails", siteId))
              ELSE IF toProfile THEN Append(requests, Request("getProfileDashboardData", Null))
              ELSE requests
        /\ UNCHANGED <<dashboardData, appSites, vars, pending>>

\* HomePage: the button View Details of a listed site (the page is rendered only
\* while page === 'home'); GlobalLoader is a layer drawn over the page, the
\* buttons under it keep their handlers
onViewSite(id) ==
    /\ page = "home"
    /\ \E j \in 1..Len(appSites) : appSites[j].SiteID = id
    /\ handleNavigate("site-details", id)

\* Header: the back button, rendered while page === 'site-details'
onBack ==
    /\ page = "site-details"
    /\ handleNavigate("home", Null)

\* BottomNav: Home and Profile
onNavigate(newPage) == handleNavigate(newPage, Null)

\* getSiteDetails settles: .then(setSiteDetails), .catch(... setPage('home')),
\* .finally(() => setLoading(false))
siteDetailsSettles(i) ==
    /\ i \in 1..Len(requests)
    /\ requests[i].op = "getSiteDetails"
    /\ TimerMayFire(i)
    /\ LET settled == getSiteDetailsResult(requests[i].siteId)
       IN  IF settled.error = NoError
           THEN siteDetails' = {settled.value} /\ page' = page
           ELSE siteDetails' = siteDetails /\ page' = "home"
    /\ loading' = FALSE
    /\ requests' = WithoutRequest(i)
    /\ UNCHANGED <<currentSiteId, dashboardData, appSites, vars, pending>>

\* getProfileDashboardData settles: .then(setDashboardData),
\* .finally(() => setLoading(false))
dashboardSettles(i) ==
    /\ i \in 1..Len(requests)
    /\ requests[i].op = "getProfileDashboardData"
    /\ TimerMayFire(i)
    /\ \E clock \in Clocks :
          dashboardData' = {getProfileDashboardDataResult(clock).value}
    /\ loading' = FALSE
    /\ requests' = WithoutRequest(i)
    /\ UNCHANGED <<page, currentSiteId, siteDetails, appSites, vars, pending>>

\* loadInitialData: getInitialData settles, setSites(data.sites), and the loads of
\* today's workers and of the material logs start
initialDataSettles(i) ==
    /\ i \in 1..Len(requests)
    /\ requests[i].op = "getInitialData"
    /\ TimerMayFire(i)
    /\ appSites' = getInitialDataResult.value.sites
    /\ requests' = Append(WithoutRequest(i), Request("loads", Null))
    /\ UNCHANGED <<page, loading, currentSiteId, siteDetails, dashboardData, vars, pending>>

\* loadInitialData: both loads have settled, finally setLoading(false)
loadsSettle(i) ==
    /\ i \in 1..Len(requests)
    /\ requests[i].op = "loads"
    /\ TimerMayFire(i)
    /\ loading' = FALSE
    /\ requests' = WithoutRequest(i)
    /\ UNCHANGED <<page, currentSiteId, siteDetails, dashboardData, appSites, vars, pending>>

NextApp ==
    \/ \E j \in 1..Len(sites) : onViewSite(sites[j].SiteID)
    \/ onBack
    \/ \E newPage \in {"home", "profile"} : onNavigate(newPage)
    \/ \E i \in 1..MaxInFlight : siteDetailsSettles(i)
    \/ \E i \in 1..MaxInFlight : dashboardSettles(i)
    \/ \E i \in 1..MaxInFlight : initialDataSettles(i)
    \/ \E i \in 1..MaxInFlight : loadsSettle(i)

SpecApp == Init /\ [][NextApp]_allVars

-----------------------------------------------------------------------------
(* Properties.                                                             *)

\* sum of f[x] over the x in S
RECURSIVE SetSum(_, _)
SetSum(S, f) ==
    IF S = {} THEN 0
    ELSE LET x == CHOOSE y \in S : TRUE IN f[x] + SetSum(S \ {x}, f)

\* positions of the records of arr that carry the given SiteID
IndicesOfSite(arr, siteId) == {j \in 1..Len(arr) : arr[j].SiteID = siteId}

SiteExists(siteId) == \E i \in 1..Len(sites) : sites[i].SiteID = siteId

\* C1: for every site S of the store, getSiteDetails(S.SiteID) is fulfilled with
\* workerExpense = the sum of SalaryPaid over exactly the worker logs whose SiteID is
\* S, materialExpense = the sum of TotalCost over exactly the material logs whose
\* SiteID is S, and totalExpenses = workerExpense + materialExpense.
C1_SiteExpenses ==
    \A i \in 1..Len(sites) :
        LET id == sites[i].SiteID
            r == getSiteDetailsResult(id)
            W == IndicesOfSite(siteWorkerLogs, id)
            M == IndicesOfSite(siteMaterialLogs, id)
            salaries == SetSum(W, [j \in W |-> siteWorkerLogs[j].SalaryPaid])
            costs == SetSum(M, [j \in M |-> siteMaterialLogs[j].TotalCost])
        IN  /\ r.error = NoError
            /\ r.value.expenses.workerExpense = salaries
            /\ r.value.expenses.materialExpense = costs
            /\ r.value.expenses.totalExpenses = salaries + costs

\* C1 witness: site s-1 has a paid worker log, its seeded material log and a
\* material log added later (22500 + 10 * 100), while a paid worker log of site s-2
\* and a material log of no site carry amounts too.
C1_Witness ==
    /\ getSiteDetailsResult("s-1").value.expenses =
          [totalExpenses |-> 24300, workerExpense |-> 800, materialExpense |-> 23500]
    /\ \E j \in 1..Len(siteWorkerLogs) :
            siteWorkerLogs[j].SiteID = "s-2" /\ siteWorkerLogs[j].SalaryPaid = 500
    /\ \E j \in 1..Len(siteMaterialLogs) :
            siteMaterialLogs[j].SiteID = UnknownSiteId /\ siteMaterialLogs[j].TotalCost = 1000

\* each material log's total cost is its quantity times its unit value
MaterialCostsConsistent ==
    \A j \in 1..Len(siteMaterialLogs) :
        siteMaterialLogs[j].TotalCost =
            siteMaterialLogs[j].QuantityUsed * siteMaterialLogs[j].DefaultValue

\* a step keeps every existing material log as it is, and the log appended by
\* addDailyMaterial carries the quantity and unit value of the call and their product
MaterialLogsFrozen ==
    /\ Len(siteMaterialLogs') >= Len(siteMaterialLogs)
    /\ \A j \in 1..Len(siteMaterialLogs) : siteMaterialLogs'[j] = siteMaterialLogs[j]
    /\ \A logData \in DailyMaterialArgs :
          addDailyMaterial(logData) =>
              LET new == siteMaterialLogs'[Len(siteMaterialLogs')]
              IN  /\ Len(siteMaterialLogs') = Len(siteMaterialLogs) + 1
                  /\ new.QuantityUsed = logData.QuantityUsed
                  /\ new.DefaultValue = logData.DefaultValue
                  /\ new.TotalCost = logData.QuantityUsed * logData.DefaultValue
                  /\ addDailyMaterialResult(logData) = Fulfilled(new)

\* C2: in every reachable state every material log (the seeded one and every one
\* created by addDailyMaterial with quantity Q and unit value V) has
\* TotalCost = QuantityUsed * DefaultValue = Q * V, and no later operation changes
\* an existing material log.
C2_TotalCostFixed == []MaterialCostsConsistent /\ [][MaterialLogsFrozen]_vars

\* C2 witness: a material log was created with quantity 10 and unit value 100, so
\* with total cost 1000, and a master material has been added after it.
C2_Witness ==
    /\ Len(siteMaterialLogs) = 2
    /\ siteMaterialLogs[2].LogID = generateUUID(1)
    /\ siteMaterialLogs[2].TotalCost = 1000
    /\ Len(materials) = 4
    /\ materials[4].MaterialID = generateUUID(2)

\* C3: getTodayWorkers returns exactly the worker logs dated today whose SiteID is
\* that of a site that is Online now: each such log once, and no log of an Offline
\* site or of no site.
C3_TodayWorkersOnline ==
    LET result == getTodayWorkersResult.value
        Eligible(log) ==
            /\ log.Date = today
            /\ \E i \in 1..Len(sites) :
                    sites[i].SiteID = log.SiteID /\ sites[i].Status = "Online"
        E == {j \in 1..Len(siteWorkerLogs) : Eligible(siteWorkerLogs[j])}
    IN  /\ getTodayWorkersResult.error = NoError
        /\ Len(result) = Cardinality(E)
        /\ \A j \in E : \E k \in 1..Len(result) :
                \A f \in DOMAIN siteWorkerLogs[j] : result[k][f] = siteWorkerLogs[j][f]
        /\ \A k \in 1..Len(result) :
                /\ SiteExists(result[k].SiteID)
                /\ sites[siteIndex(result[k].SiteID)].Status = "Online"
                /\ result[k].Date = today

\* C3 witness: the view is not empty, while a log dated today belongs to site s-1
\* that was switched Offline after the log was made, and another log dated today
\* carries a SiteID that matches no site.
C3_Witness ==
    /\ Len(getTodayWorkersResult.value) > 0
    /\ sites[1].Status = "Offline"
    /\ siteWorkerLogs[1].SiteID = "s-1" /\ siteWorkerLogs[1].Date = today
    /\ \E j \in 1..Len(siteWorkerLogs) :
            siteWorkerLogs[j].SiteID = UnknownSiteId /\ siteWorkerLogs[j].Date = today

\* the site records after Status of the sites with the given ID is set
WithStatus(arr, siteId, status) ==
    [i \in 1..Len(arr) |->
        IF arr[i].SiteID = siteId
        THEN [f \in DOMAIN arr[i] |-> IF f = "Status" THEN status ELSE arr[i][f]]
        ELSE arr[i]]

UpdateSiteStatusSettles ==
    \A siteId \in SiteIdArgs, status \in StatusArgs :
        updateSiteStatusResult(siteId, status).error =
            IF SiteExists(siteId) THEN NoError ELSE "Site not found"

\* (a step that changes no variable satisfies it whatever call it is)
UpdateSiteStatusWrites ==
    \/ UNCHANGED vars
    \/ \A siteId \in SiteIdArgs, status \in StatusArgs :
          updateSiteStatus(siteId, status) =>
              IF SiteExists(siteId)
              THEN /\ sites' = WithStatus(sites, siteId, status)
                   /\ UNCHANGED <<workers, materials, dailyLogs, siteWorkerLogs,
                                  siteMaterialLogs, galleryImages>>
              ELSE UNCHANGED store

\* C4: updateSiteStatus with a site ID that matches no site is rejected with
\* 'Site not found' and leaves every collection as it was; with an existing ID it
\* is fulfilled and sets only that site's Status to the given value.
C4_UpdateSiteStatus == []UpdateSiteStatusSettles /\ [][UpdateSiteStatusWrites]_vars

\* C4 witness: a call for site s-1 has switched it Offline and left the other
\* sites as seeded, and a call for the unknown site ID is rejected.
C4_Witness ==
    /\ sites[1].Status = "Offline"
    /\ sites[2].Status = "Online"
    /\ ~SiteExists(UnknownSiteId)
    /\ updateSiteStatusResult(UnknownSiteId, "Offline") = Rejected("Site not found")

\* the addDailyWorker payloads with neither a WorkerID nor a new-worker payload
NoWorkerReference == {l \in DailyWorkerArgs : l.WorkerID = Null /\ l.newWorker = {}}

\* C5: addDailyWorker with WorkerID = null and newWorker = null is rejected with
\* 'Worker ID is missing', and the workers and siteWorkerLogs collections are the
\* same after the call as before it.
C5_MissingWorkerReference ==
    /\ [](\A l \in NoWorkerReference :
            addDailyWorkerResult(l) = Rejected("Worker ID is missing"))
    /\ [][\/ workers' = workers /\ siteWorkerLogs' = siteWorkerLogs
          \/ \A l \in NoWorkerReference : ~addDailyWorker(l)]_vars

\* C5 witness: a call without worker reference is rejected in a store to which an
\* earlier addDailyWorker added a worker and a log.
C5_Witness ==
    /\ Len(workers) = 4 /\ Len(siteWorkerLogs) = 3
    /\ siteWorkerLogs[3].WorkerID = workers[4].WorkerID
    /\ \E l \in NoWorkerReference : addDailyWorkerResult(l).error = "Worker ID is missing"

WorkerLogExists(logId) == \E j \in 1..Len(siteWorkerLogs) : siteWorkerLogs[j].LogID = logId

\* C6: updateWorkerSalary with a logId that matches no worker log is rejected with
\* 'Worker log not found' and leaves every worker log and the rest of the store
\* unchanged.
C6_UpdateSalaryNotFound ==
    /\ [](\A u \in SalaryUpdateArgs :
            ~WorkerLogExists(u.logId) =>
                updateWorkerSalaryResult(u) = Rejected("Worker log not found"))
    /\ [][\/ UNCHANGED store
          \/ \A u \in SalaryUpdateArgs :
                ~(~WorkerLogExists(u.logId) /\ updateWorkerSalary(u))]_vars

\* C6 witness: a call for the unknown log ID is rejected, after an earlier call
\* paid the seeded log swl-2.
C6_Witness ==
    /\ siteWorkerLogs[2].SalaryPaid = 500 /\ siteWorkerLogs[2].PaidStatus
    /\ ~WorkerLogExists(UnknownLogId)
    /\ \E u \in SalaryUpdateArgs :
            u.logId = UnknownLogId /\ updateWorkerSalaryResult(u).error = "Worker log not found"

AllReferenceSites(arr) == \A j \in 1..Len(arr) : SiteExists(arr[j].SiteID)

\* C7 as claimed: every worker log, material log, daily log and gallery image
\* carries the SiteID of a site of the store.
C7_AllLogsReferenceSites ==
    /\ AllReferenceSites(siteWorkerLogs)
    /\ AllReferenceSites(siteMaterialLogs)
    /\ AllReferenceSites(dailyLogs)
    /\ AllReferenceSites(galleryImages)

\* addDailyLog, addDailyMaterial and addDailyWorker (given a worker reference) are
\* fulfilled whether or not a site carries the SiteID of the payload; uploadFile
\* is rejected when none does
CreatesSettle ==
    /\ \A l \in DailyLogArgs : addDailyLogResult(l).error = NoError
    /\ \A l \in DailyMaterialArgs : addDailyMaterialResult(l).error = NoError
    /\ \A l \in DailyWorkerArgs \ NoWorkerReference : addDailyWorkerResult(l).error = NoError
    /\ \A siteId \in SiteIdArgs, fileType \in FileTypeArgs :
          ~SiteExists(siteId) =>
              uploadFileResult(siteId, fileType, Description) = Rejected("Site not found")

\* each of the three appends one record under the SiteID of its payload, and a
\* rejected uploadFile appends no gallery image
CreatesWithoutSiteLookup ==
    \/ UNCHANGED vars
    \/ /\ \A l \in DailyLogArgs :
             addDailyLog(l) =>
                 /\ Len(dailyLogs') = Len(dailyLogs) + 1
                 /\ dailyLogs'[Len(dailyLogs')].SiteID = l.SiteID
       /\ \A l \in DailyMaterialArgs :
             addDailyMaterial(l) =>
                 /\ Len(siteMaterialLogs') = Len(siteMaterialLogs) + 1
                 /\ siteMaterialLogs'[Len(siteMaterialLogs')].SiteID = l.SiteID
       /\ \A l \in DailyWorkerArgs \ NoWorkerReference :
             addDailyWorker(l) =>
                 /\ Len(siteWorkerLogs') = Len(siteWorkerLogs) + 1
                 /\ siteWorkerLogs'[Len(siteWorkerLogs')].SiteID = l.SiteID
       /\ \A siteId \in SiteIdArgs, fileType \in FileTypeArgs :
             (~SiteExists(siteId) /\ uploadFile(siteId, fileType, Description)) =>
                 galleryImages' = galleryImages

\* C7 amended: every gallery image carries the SiteID of a site of the store
\* (uploadFile looks the site up and is rejected without appending when it is
\* absent); addDailyLog, addDailyWorker and addDailyMaterial look no site up and
\* append their record under whatever SiteID the payload carries.
C7_OnlyGalleryReferencesSites ==
    /\ [](AllReferenceSites(galleryImages) /\ CreatesSettle)
    /\ [][CreatesWithoutSiteLookup]_vars

\* C7 witness: a worker log and a daily log were appended under a SiteID that
\* matches no site.
C7_Witness ==
    /\ Len(siteWorkerLogs) = 3
    /\ siteWorkerLogs[3].SiteID = UnknownSiteId
    /\ Len(dailyLogs) = 2
    /\ dailyLogs[2].SiteID = UnknownSiteId
    /\ ~SiteExists(UnknownSiteId)

\* the file references of the site records
FileIdsOf(arr) ==
    [i \in 1..Len(arr) |->
        [f \in DOMAIN arr[i] \cap {"AgreementFileID", "SitePlanFileID"} |-> arr[i][f]]]

\* uploadFile for a site ID that matches no site is rejected, whatever the category
UploadRejectedForUnknownSite ==
    \A siteId \in SiteIdArgs, fileType \in FileTypeArgs :
        ~SiteExists(siteId) =>
            uploadFileResult(siteId, fileType, Description) = Rejected("Site not found")

\* a step that changes a collection is no rejected call: the calls that are
\* rejected are uploadFile, updateSiteStatus and getSiteDetails for a site ID that
\* matches no site, addDailyWorker without worker reference and updateWorkerSalary
\* for a log ID that matches no worker log
NoPartialWrite ==
    \/ UNCHANGED store
    \/ /\ \A siteId \in SiteIdArgs, fileType \in FileTypeArgs :
             ~(~SiteExists(siteId) /\ uploadFile(siteId, fileType, Description))
       /\ \A siteId \in SiteIdArgs, status \in StatusArgs :
             ~(~SiteExists(siteId) /\ updateSiteStatus(siteId, status))
       /\ \A l \in NoWorkerReference : ~addDailyWorker(l)
       /\ \A u \in SalaryUpdateArgs :
             ~(~WorkerLogExists(u.logId) /\ updateWorkerSalary(u))
       /\ \A siteId \in SiteIdArgs : ~(~SiteExists(siteId) /\ getSiteDetails(siteId))

\* a rejected uploadFile appends no gallery image and changes no file reference
NoUploadWrite ==
    \/ galleryImages' = galleryImages /\ FileIdsOf(sites') = FileIdsOf(sites)
    \/ \A siteId \in SiteIdArgs, fileType \in FileTypeArgs :
          ~(~SiteExists(siteId) /\ uploadFile(siteId, fileType, Description))

\* C8: uploadFile with a site ID that matches no site is rejected with 'Site not
\* found' for every file category and writes nothing (no gallery image, no file
\* reference of any site); no rejected call of the API changes any collection.
C8_NoWriteOnFailure ==
    []UploadRejectedForUnknownSite /\ [][NoUploadWrite /\ NoPartialWrite]_vars

\* C8 witness: uploads for the unknown site ID are rejected in a store where
\* earlier uploads set the agreement and the plan of site s-1.
C8_Witness ==
    /\ ~SiteExists(UnknownSiteId)
    /\ uploadFileResult(UnknownSiteId, "gallery", Description).error = "Site not found"
    /\ DOMAIN FileIdsOf(sites)[1] = {"AgreementFileID", "SitePlanFileID"}

AddNewSiteSettles ==
    \A siteData \in SiteDataArgs :
        LET r == addNewSiteResult(siteData)
        IN  /\ r.error = NoError
            /\ r.value.Status = "Online"
            /\ r.value.AmountReceived = 0
            /\ ~SiteExists(r.value.SiteID)

AddNewSiteWrites ==
    \/ UNCHANGED vars
    \/ \A siteData \in SiteDataArgs :
        addNewSite(siteData) =>
            LET new == sites'[Len(sites')]
            IN  /\ Len(sites') = Len(sites) + 1
                /\ SubSeq(sites', 1, Len(sites)) = sites
                /\ \A i \in 1..Len(sites) : sites[i].SiteID # new.SiteID
                /\ new.Status = "Online"
                /\ new.AmountReceived = 0
                /\ \A f \in DOMAIN siteData \ {"SiteID", "Status", "AmountReceived"} :
                        new[f] = siteData[f]
                /\ addNewSiteResult(siteData) = Fulfilled(new)
                /\ UNCHANGED <<workers, materials, dailyLogs, siteWorkerLogs,
                               siteMaterialLogs, galleryImages>>

SiteStatusValid == \A i \in 1..Len(sites) : sites[i].Status \in {"Online", "Offline"}

\* C9: addNewSite is fulfilled and appends exactly one site whose SiteID differs
\* from that of every site already stored, whose Status is Online and whose
\* AmountReceived is 0, whatever the payload contains, and changes nothing else;
\* every site's Status is Online or Offline in every reachable state.
C9_AddNewSite == [](SiteStatusValid /\ AddNewSiteSettles) /\ [][AddNewSiteWrites]_vars

\* C9 witness: two sites have been added to the three seeded ones (one of the
\* payloads on offer carries SiteID s-1, Status Offline and AmountReceived 700).
C9_Witness ==
    /\ Len(sites) = 5
    /\ sites[4].Status = "Online" /\ sites[5].AmountReceived = 0
    /\ \E siteData \in SiteDataArgs : "Status" \in DOMAIN siteData

Distinct(arr, Id(_)) ==
    \A i, j \in 1..Len(arr) : i # j => Id(arr[i]) # Id(arr[j])

\* C10: within each collection no two records share an ID (no record is ever
\* removed, so an ID once assigned is never assigned to a later record).
C10_UniqueIds ==
    /\ Distinct(sites, LAMBDA r : r.SiteID)
    /\ Distinct(workers, LAMBDA r : r.WorkerID)
    /\ Distinct(materials, LAMBDA r : r.MaterialID)
    /\ Distinct(dailyLogs, LAMBDA r : r.LogID)
    /\ Distinct(siteWorkerLogs, LAMBDA r : r.LogID)
    /\ Distinct(siteMaterialLogs, LAMBDA r : r.LogID)
    /\ Distinct(galleryImages, LAMBDA r : r.ImageID)

\* C10 witness: two daily logs have been added to the seeded one (one of the
\* payloads on offer carries the LogID dl-1 of the seeded log).
C10_Witness ==
    /\ Len(dailyLogs) = 3
    /\ \E l \in DailyLogArgs : "LogID" \in DOMAIN l /\ l.LogID = dailyLogs[1].LogID

\* positions of the logs of arr that carry the given date
IndicesDated(arr, date) == {j \in 1..Len(arr) : arr[j].Date = date}

\* C11: whatever the time zone and the time of day, getProfileDashboardData is
\* fulfilled with onlineSites = the number of sites whose Status is Online,
\* offlineSites = the number of sites whose Status is Offline (the two add up to
\* the number of sites), todayWorkers = the number of worker logs dated today and
\* todayMaterials = the number of material logs dated today, whatever the site of
\* the log and its status.
C11_DashboardCounts ==
    \A clock \in Clocks :
        LET r == getProfileDashboardDataResult(clock)
        IN  /\ r.error = NoError
            /\ r.value.onlineSites =
                  Cardinality({i \in 1..Len(sites) : sites[i].Status = "Online"})
            /\ r.value.offlineSites =
                  Cardinality({i \in 1..Len(sites) : sites[i].Status = "Offline"})
            /\ r.value.onlineSites + r.value.offlineSites = Len(sites)
            /\ r.value.todayWorkers = Cardinality(IndicesDated(siteWorkerLogs, today))
            /\ r.value.todayMaterials = Cardinality(IndicesDated(siteMaterialLogs, today))

\* C11 witness: site s-1 was switched Offline and still counts its two logs dated
\* today, a worker log of no site dated today counts too, and a fourth site is
\* counted Online.
C11_Witness ==
    /\ sites[1].Status = "Offline"
    /\ Len(sites) = 4
    /\ \E j \in IndicesDated(siteWorkerLogs, today) :
            siteWorkerLogs[j].SiteID = UnknownSiteId
    /\ \A clock \in Clocks :
            LET v == getProfileDashboardDataResult(clock).value
            IN  /\ v.onlineSites = 2 /\ v.offlineSites = 2
                /\ v.todayWorkers = 3 /\ v.todayMaterials = 1

\* the sum of SalaryPaid over the worker logs and of TotalCost over the material
\* logs whose date satisfies In
ExpensesDated(In(_)) ==
    LET W == {j \in 1..Len(siteWorkerLogs) : In(siteWorkerLogs[j].Date)}
        M == {j \in 1..Len(siteMaterialLogs) : In(siteMaterialLogs[j].Date)}
    IN  SetSum(W, [j \in W |-> siteWorkerLogs[j].SalaryPaid])
          + SetSum(M, [j \in M |-> siteMaterialLogs[j].TotalCost])

\* C12: getProfileDashboardData called on the date D returns todayExpense = the
\* sum of SalaryPaid over the worker logs dated D plus the sum of TotalCost over
\* the material logs dated D, and monthExpense = the same two sums over exactly
\* the logs whose date falls in the calendar month and year of D, across all sites.
C12_DashboardExpenses ==
    \A clock \in Clocks :
        LET v == getProfileDashboardDataResult(clock).value
        IN  /\ v.todayExpense = ExpensesDated(LAMBDA d : d = today)
            /\ v.monthExpense =
                  ExpensesDated(LAMBDA d : d[1] = today[1] /\ d[2] = today[2])

\* the entry e of a view is the record l with the field SiteName added
EnrichedFrom(e, l) ==
    /\ DOMAIN e = DOMAIN l \cup {"SiteName"}
    /\ \A f \in DOMAIN l \ {"SiteName"} : e[f] = l[f]

\* the entries of view are the records of arr, each as often as arr holds it
PermutationOf(view, arr) ==
    /\ Len(view) = Len(arr)
    /\ \A j \in 1..Len(arr) :
          Cardinality({k \in 1..Len(view) : EnrichedFrom(view[k], arr[j])})
              = Cardinality({i \in 1..Len(arr) : arr[i] = arr[j]})

ExactlyOfSite(view, arr, siteId) ==
    /\ Len(view) = Cardinality(IndicesOfSite(arr, siteId))
    /\ \A k \in 1..Len(view) : view[k].SiteID = siteId
    /\ \A j \in IndicesOfSite(arr, siteId) :
          Cardinality({k \in 1..Len(view) : view[k] = arr[j]})
              = Cardinality({i \in 1..Len(arr) : arr[i] = arr[j]})

\* from one entry of view to the next the date never increases
NewestFirst(view, Key(_)) ==
    \A k \in 1..(Len(view) - 1) : getTime(Key(view[k])) >= getTime(Key(view[k + 1]))

\* the site IDs of the store and the ones the callers pass
SiteIdsToView == {sites[i].SiteID : i \in 1..Len(sites)} \cup SiteIdArgs

\* C14: for a siteId that a site of the store carries, getSiteDetails is fulfilled
\* with logs, workerLogs, materialLogs and gallery holding exactly the records of
\* dailyLogs, siteWorkerLogs, siteMaterialLogs and galleryImages whose SiteID is
\* siteId, each list in an order in which Date (DateUploaded for the gallery) never
\* increases; for a siteId that no site carries it is rejected with 'Site not
\* found' and carries no view.
C14_SiteDetailsLists ==
    \A siteId \in SiteIdsToView :
        LET r == getSiteDetailsResult(siteId)
        IN  IF SiteExists(siteId)
            THEN /\ r.error = NoError
                 /\ r.value.site.SiteID = siteId
                 /\ ExactlyOfSite(r.value.logs, dailyLogs, siteId)
                 /\ ExactlyOfSite(r.value.workerLogs, siteWorkerLogs, siteId)
                 /\ ExactlyOfSite(r.value.materialLogs, siteMaterialLogs, siteId)
                 /\ ExactlyOfSite(r.value.gallery, galleryImages, siteId)
                 /\ NewestFirst(r.value.logs, DateOf)
                 /\ NewestFirst(r.value.workerLogs, DateOf)
                 /\ NewestFirst(r.value.materialLogs, DateOf)
                 /\ NewestFirst(r.value.gallery, DateUploadedOf)
            ELSE r = Rejected("Site not found") /\ "value" \notin DOMAIN r

\* C14 witness: site s-1 has two gallery images uploaded on different days and the
\* view lists the later one first; its worker logs leave out the log of site s-2;
\* the unknown site ID is rejected.
C14_Witness ==
    LET v == getSiteDetailsResult("s-1").value
    IN  /\ Len(galleryImages) = 2
        /\ galleryImages[1].DateUploaded = LoadDate
        /\ galleryImages[2].DateUploaded = NextDay(LoadDate)
        /\ v.gallery = <<galleryImages[2], galleryImages[1]>>
        /\ Len(v.workerLogs) < Len(siteWorkerLogs)
        /\ getSiteDetailsResult(UnknownSiteId).error = "Site not found"

\* the addDailyWorker payloads that carry a new-worker payload, with or without
\* a WorkerID
WithNewWorker == {l \in DailyWorkerArgs : l.newWorker # {}}

WorkerExists(workerId) == \E i \in 1..Len(workers) : workers[i].WorkerID = workerId

\* a worker log whose WorkerID is a generated identifier was made from a
\* new-worker payload (the callers pass the IDs of seeded workers otherwise); its
\* worker is in the store
GeneratedWorkersPresent ==
    \A j \in 1..Len(siteWorkerLogs) :
        (\E n \in 1..uuidCount : siteWorkerLogs[j].WorkerID = generateUUID(n))
            => WorkerExists(siteWorkerLogs[j].WorkerID)

\* with a new-worker payload the call is fulfilled with the new worker and with a
\* log that carries the ID of that worker, no salary and the status unpaid
NewWorkerSettles ==
    \A l \in WithNewWorker :
        LET r == addDailyWorkerResult(l)
        IN  /\ r.error = NoError
            /\ \E w \in r.value.newWorker :
                  /\ r.value.newLog.WorkerID = w.WorkerID
                  /\ ~WorkerExists(w.WorkerID)
            /\ r.value.newLog.SalaryPaid = 0
            /\ r.value.newLog.PaidStatus = FALSE

\* the step of such a call appends the worker, whose identifier is drawn first,
\* and the log with the second identifier; no step removes a worker
NewWorkerWrites ==
    \/ UNCHANGED vars
    \/ /\ Len(workers') >= Len(workers)
       /\ SubSeq(workers', 1, Len(workers)) = workers
       /\ \A l \in WithNewWorker :
             addDailyWorker(l) =>
                 LET r == addDailyWorkerResult(l)
                     w == workers'[Len(workers')]
                     new == siteWorkerLogs'[Len(siteWorkerLogs')]
                 IN  /\ Len(workers') = Len(workers) + 1
                     /\ {w} = r.value.newWorker
                     /\ w.WorkerID = generateUUID(uuidCount + 1)
                     /\ siteWorkerLogs' = Append(siteWorkerLogs, new)
                     /\ new = r.value.newLog
                     /\ new.LogID = generateUUID(uuidCount + 2)
                     /\ new.WorkerID = w.WorkerID
                     /\ new.SalaryPaid = 0
                     /\ new.PaidStatus = FALSE

\* C15: addDailyWorker with a new-worker payload, with or without a WorkerID next
\* to it, appends the new worker to workers before it appends the log, gives the
\* log the ID generated for that worker, SalaryPaid = 0 and PaidStatus = false; in
\* every reachable state the worker of a log made this way is in the store.
C15_NewWorkerFirst ==
    [](GeneratedWorkersPresent /\ NewWorkerSettles) /\ [][NewWorkerWrites]_vars

\* C15 witness: a worker was registered from a payload and the log made with it
\* carries the ID of that worker, not the ID w-1 of the seeded worker the payloads
\* name, and is unpaid.
C15_Witness ==
    /\ Len(workers) = 4
    /\ workers[4].WorkerName = WorkerData.WorkerName
    /\ Len(siteWorkerLogs) = 3
    /\ siteWorkerLogs[3].WorkerID = workers[4].WorkerID
    /\ siteWorkerLogs[3].WorkerID # "w-1"
    /\ siteWorkerLogs[3].SalaryPaid = 0
    /\ ~siteWorkerLogs[3].PaidStatus
    /\ \E l \in WithNewWorker : l.WorkerID = "w-1"

\* the field of the site record that an upload of the category writes
FileFieldOf(fileType) ==
    IF fileType = "agreement" THEN "AgreementFileID" ELSE "SitePlanFileID"

\* only the given field of the site with the given ID changes, to a reference that
\* no site held in that field
OnlyFileFieldChanges(siteId, field) ==
    /\ Len(sites') = Len(sites)
    /\ \A i \in 1..Len(sites) :
          IF sites[i].SiteID = siteId
          THEN /\ DOMAIN sites'[i] = DOMAIN sites[i] \cup {field}
               /\ \A f \in DOMAIN sites[i] \ {field} : sites'[i][f] = sites[i][f]
               /\ sites'[i][field] = fileIdOf(uuidCount + 1)
               /\ \A k \in 1..Len(sites) :
                     field \in DOMAIN sites[k] => sites[k][field] # sites'[i][field]
          ELSE sites'[i] = sites[i]
    /\ UNCHANGED <<workers, materials, dailyLogs, siteWorkerLogs, siteMaterialLogs,
                   galleryImages>>

\* one gallery image of the given site is appended and nothing else changes
OnlyGalleryGrows(siteId) ==
    /\ Len(galleryImages') = Len(galleryImages) + 1
    /\ SubSeq(galleryImages', 1, Len(galleryImages)) = galleryImages
    /\ galleryImages'[Len(galleryImages')].SiteID = siteId
    /\ galleryImages'[Len(galleryImages')].DateUploaded = today
    /\ galleryImages'[Len(galleryImages')].Description = Description
    /\ UNCHANGED <<sites, workers, materials, dailyLogs, siteWorkerLogs, siteMaterialLogs>>

UploadSettles ==
    \A siteId \in SiteIdArgs, fileType \in {"agreement", "plan", "gallery"} :
        SiteExists(siteId) =>
            uploadFileResult(siteId, fileType, Description) = Fulfilled([success |-> TRUE])

UploadWrites ==
    \/ UNCHANGED vars
    \/ \A siteId \in SiteIdArgs, fileType \in {"agreement", "plan", "gallery"} :
          (SiteExists(siteId) /\ uploadFile(siteId, fileType, Description)) =>
              IF fileType = "gallery" THEN OnlyGalleryGrows(siteId)
              ELSE OnlyFileFieldChanges(siteId, FileFieldOf(fileType))

\* C16: uploadFile on an existing site is fulfilled and changes exactly one thing:
\* for the category agreement the AgreementFileID of that site, for plan its
\* SitePlanFileID (the new reference replaces the one held before), for gallery
\* the gallery, to which one image of that site is appended while the site record
\* stays as it is; every other site, field and collection is unchanged.
C16_UploadFrame == []UploadSettles /\ [][UploadWrites]_vars

\* C16 witness: the agreement of site s-1 was uploaded twice and the site holds
\* the reference of the second upload.
C16_Witness ==
    /\ uuidCount = 2
    /\ "AgreementFileID" \in DOMAIN sites[1]
    /\ sites[1].AgreementFileID = fileIdOf(2)
    /\ "SitePlanFileID" \notin DOMAIN sites[1]
    /\ galleryImages = <<>>
    /\ <<workers, materials, dailyLogs, siteWorkerLogs, siteMaterialLogs>> =
          <<InitWorkers, InitMaterials, InitDailyLogs, InitSiteWorkerLogs,
            InitSiteMaterialLogs>>

\* SalaryPaid and PaidStatus of the j-th worker log when it was created: the
\* seeded logs as seeded, every later log unpaid (0, false)
PaymentAsCreated(j) ==
    IF j <= Len(InitSiteWorkerLogs)
    THEN <<InitSiteWorkerLogs[j].SalaryPaid, InitSiteWorkerLogs[j].PaidStatus>>
    ELSE <<0, FALSE>>

PaymentOf(log) == <<log.SalaryPaid, log.PaidStatus>>

\* the j-th worker log no longer carries the payment it was created with, so an
\* updateWorkerSalary has succeeded on it
SalaryUpdated(j) == PaymentOf(siteWorkerLogs[j]) # PaymentAsCreated(j)

\* C17: a worker log is mutated at most once after its creation: once
\* updateWorkerSalary has succeeded on a worker log, no later step, a second
\* updateWorkerSalary with the same logId included, changes the SalaryPaid or the
\* PaidStatus of that log.
C17_MutatedAtMostOnce ==
    [][\A j \in 1..Len(siteWorkerLogs) :
          SalaryUpdated(j) => PaymentOf(siteWorkerLogs'[j]) = PaymentOf(siteWorkerLogs[j])]_vars

\* arr holds the record
Holds(arr, record) == \E j \in 1..Len(arr) : arr[j] = record

\* every call in flight will be fulfilled and every settled call was fulfilled
AllSucceed ==
    \A slot \in Slots :
        /\ IsPending(slot) => ResultOf(pending[slot]).error = NoError
        /\ IsSettled(slot) => pending[slot].settled.error = NoError

\* the records the settled calls returned are in the store
CreatedRecordsPresent ==
    \A slot \in Slots :
        IsSettled(slot) =>
            LET op == pending[slot].op
                v == pending[slot].settled.value
            IN  /\ op = "addNewWorker" => Holds(workers, v)
                /\ op = "addDailyLog" => Holds(dailyLogs, v)
                /\ op = "addDailyMaterial" => Holds(siteMaterialLogs, v)
                /\ op = "addDailyWorker" =>
                      /\ Holds(siteWorkerLogs, v.newLog)
                      /\ \A w \in v.newWorker : Holds(workers, w)

\* the identifiers a settled call gave its records
IdsCreatedBy(slot) ==
    LET op == pending[slot].op
        v == pending[slot].settled.value
    IN  IF op = "addNewWorker" THEN {v.WorkerID}
        ELSE IF op = "addDailyWorker"
        THEN {v.newLog.LogID} \cup {w.WorkerID : w \in v.newWorker}
        ELSE {v.LogID}

\* no two settled calls gave a record the same identifier, and no two records of
\* a collection share one
CreatedIdsDistinct ==
    /\ \A s1, s2 \in Slots :
          (s1 # s2 /\ IsSettled(s1) /\ IsSettled(s2))
              => IdsCreatedBy(s1) \cap IdsCreatedBy(s2) = {}
    /\ C10_UniqueIds

\* what the call does to the store when it is applied on its own to the store as
\* it is now: it appends the records it returns and changes nothing else
AppliedAlone(call) ==
    LET v == ResultOf(call).value
    IN  /\ workers' =
              IF call.op = "addNewWorker" THEN Append(workers, v)
              ELSE IF call.op = "addDailyWorker" /\ v.newWorker # {}
              THEN Append(workers, CHOOSE w \in v.newWorker : TRUE)
              ELSE workers
        /\ dailyLogs' = IF call.op = "addDailyLog" THEN Append(dailyLogs, v) ELSE dailyLogs
        /\ siteMaterialLogs' =
              IF call.op = "addDailyMaterial" THEN Append(siteMaterialLogs, v)
              ELSE siteMaterialLogs
        /\ siteWorkerLogs' =
              IF call.op = "addDailyWorker" THEN Append(siteWorkerLogs, v.newLog)
              ELSE siteWorkerLogs
        /\ UNCHANGED <<sites, materials, galleryImages>>

\* the store changes only in the step in which a call completes, and then as if
\* the call were applied on its own
OneCallAtATime ==
    \/ UNCHANGED store
    \/ \E slot \in Slots :
          /\ IsPending(slot)
          /\ pending'[slot].state = "settled"
          /\ pending'[slot].settled = ResultOf(pending[slot])
          /\ \A other \in Slots \ {slot} : pending'[other] = pending[other]
          /\ AppliedAlone(pending[slot])

\* C18: whatever the order in which the timers of the calls in flight fire, no
\* mutation is lost: every creating call is fulfilled, the records of all settled
\* calls are in the store with identifiers that differ, and every step that changes
\* the store is the completion of one call applied on its own to the store as the
\* calls completed before it left it.
C18_NoLostMutation ==
    /\ [](AllSucceed /\ CreatedRecordsPresent /\ CreatedIdsDistinct)
    /\ [][OneCallAtATime]_allVars

\* C18 witness: an addDailyWorker with a worker payload and an addDailyLog were in
\* flight together; the daily log was written between the two timers of
\* addDailyWorker (it drew the first identifier, the worker the second, the worker
\* log the third), and both calls are settled with their records in the store.
C18_Witness ==
    \E s1, s2 \in Slots :
        /\ IsSettled(s1) /\ pending[s1].op = "addDailyWorker"
        /\ IsSettled(s2) /\ pending[s2].op = "addDailyLog"
        /\ pending[s2].settled.value.LogID = generateUUID(1)
        /\ pending[s1].settled.value.newWorker # {}
        /\ pending[s1].settled.value.newLog.WorkerID = generateUUID(2)
        /\ pending[s1].settled.value.newLog.LogID = generateUUID(3)
        /\ Holds(dailyLogs, pending[s2].settled.value)
        /\ Holds(siteWorkerLogs, pending[s1].settled.value.newLog)
        /\ Len(workers) = 4

\* the log created by the step, if the step appended one to the collection
CreatedIn(before, after) ==
    IF Len(after) = Len(before) + 1 THEN {after[Len(after)]} ELSE {}

\* a worker log carries the name of every worker registered under its WorkerID
NameOfItsWorker(log, registered) ==
    \A j \in 1..Len(registered) :
        registered[j].WorkerID = log.WorkerID => log.WorkerName = registered[j].WorkerName

\* a material log carries the name and unit of every material under its MaterialID
NameOfItsMaterial(log, catalogue) ==
    \A j \in 1..Len(catalogue) :
        catalogue[j].MaterialID = log.MaterialID
            => /\ log.MaterialName = catalogue[j].MaterialName
               /\ log.Unit = catalogue[j].Unit

\* the logs that existed before the step keep their denormalized fields
DenormalizedFieldsFrozen ==
    /\ \A j \in 1..Len(siteWorkerLogs) :
          /\ j <= Len(siteWorkerLogs')
          /\ siteWorkerLogs'[j].WorkerName = siteWorkerLogs[j].WorkerName
    /\ \A j \in 1..Len(siteMaterialLogs) :
          /\ j <= Len(siteMaterialLogs')
          /\ siteMaterialLogs'[j].MaterialName = siteMaterialLogs[j].MaterialName
          /\ siteMaterialLogs'[j].Unit = siteMaterialLogs[j].Unit

\* C19: a worker log is created with the WorkerName of the worker its WorkerID
\* names (the worker just registered from a new-worker payload included), a
\* material log with the MaterialName and Unit of the material its MaterialID
\* names, and no step changes these fields of an existing log.
C19_DenormalizedCopies ==
    [][\/ UNCHANGED store
       \/ /\ \A log \in CreatedIn(siteWorkerLogs, siteWorkerLogs') :
                NameOfItsWorker(log, workers')
          /\ \A log \in CreatedIn(siteMaterialLogs, siteMaterialLogs') :
                NameOfItsMaterial(log, materials')
          /\ DenormalizedFieldsFrozen]_vars

\* the step is a call of one of the read operations
ReadStep ==
    \/ getInitialData
    \/ \E siteId \in SiteIdArgs : getSiteDetails(siteId)
    \/ getTodayWorkers
    \/ getOverallMaterialsLog
    \/ getProfileDashboardData

\* two readings of the host's clock, one later than the other, on the same current
\* date: the same host time zone and the same local calendar date (the UTC date is
\* the variable today)
SameCurrentDate(c1, c2) ==
    /\ c1.minute < c2.minute
    /\ c1.utcOffset = c2.utcOffset
    /\ LocalDate(today, c1.minute, c1.utcOffset) = LocalDate(today, c2.minute, c2.utcOffset)

\* the step leaves what every read operation returns as it was
ReadResultsKept ==
    /\ getInitialDataResult' = getInitialDataResult
    /\ \A siteId \in SiteIdArgs : getSiteDetailsResult(siteId)' = getSiteDetailsResult(siteId)
    /\ getTodayWorkersResult' = getTodayWorkersResult
    /\ getOverallMaterialsLogResult' = getOverallMaterialsLogResult
    /\ \A clock \in Clocks :
          getProfileDashboardDataResult(clock)' = getProfileDashboardDataResult(clock)

KeptAsCreated(before, after) ==
    /\ Len(after) >= Len(before)
    /\ SubSeq(after, 1, Len(before)) = before

\* the same, except for the values of the given fields, which a record may also
\* gain
KeptExceptFields(before, after, fields) ==
    /\ Len(after) >= Len(before)
    /\ \A j \in 1..Len(before) :
          /\ DOMAIN after[j] \ fields = DOMAIN before[j] \ fields
          /\ DOMAIN before[j] \subseteq DOMAIN after[j]
          /\ \A f \in DOMAIN before[j] \ fields : after[j][f] = before[j][f]

\* C21: no step removes a record from a collection or moves it; workers,
\* materials, daily logs, material logs and gallery images are never modified
\* after creation; on a worker log only SalaryPaid and PaidStatus change, and on
\* a site only Status, AgreementFileID and SitePlanFileID.
C21_NoRemovalNoRewrite ==
    [][\/ UNCHANGED store
       \/ /\ KeptAsCreated(workers, workers')
          /\ KeptAsCreated(materials, materials')
          /\ KeptAsCreated(dailyLogs, dailyLogs')
          /\ KeptAsCreated(siteMaterialLogs, siteMaterialLogs')
          /\ KeptAsCreated(galleryImages, galleryImages')
          /\ KeptExceptFields(siteWorkerLogs, siteWorkerLogs', {"SalaryPaid", "PaidStatus"})
          /\ KeptExceptFields(sites, sites',
                              {"Status", "AgreementFileID", "SitePlanFileID"})]_vars

\* C21 witness: a day after the start the seeded worker log swl-2 has been paid,
\* site s-1 has been switched Offline and given an agreement, and a daily log has
\* been added; every seeded record is still in place and differs from its seed
\* in those fields only.
C21_Witness ==
    /\ today # InitSiteWorkerLogs[2].Date
    /\ siteWorkerLogs[2] # InitSiteWorkerLogs[2]
    /\ siteWorkerLogs[2] =
          Spread(InitSiteWorkerLogs[2], [SalaryPaid |-> 500, PaidStatus |-> TRUE])
    /\ "AgreementFileID" \in DOMAIN sites[1]
    /\ sites[1] = Spread(InitSites[1],
                         [Status |-> "Offline", AgreementFileID |-> sites[1].AgreementFileID])
    /\ Len(dailyLogs) = 2 /\ dailyLogs[1] = InitDailyLogs[1]
    /\ <<workers, materials, siteMaterialLogs>> =
          <<InitWorkers, InitMaterials, InitSiteMaterialLogs>>

\* every SalaryPaid and TotalCost in the store is non-negative
AmountsNonNegative ==
    /\ \A j \in 1..Len(siteWorkerLogs) : siteWorkerLogs[j].SalaryPaid >= 0
    /\ \A j \in 1..Len(siteMaterialLogs) : siteMaterialLogs[j].TotalCost >= 0

\* every log that the date-string comparison counts as today's is counted as this
\* month's by the comparison of the parsed month and year
TodaysLogsInMonth(clock) ==
    /\ \A j \in 1..Len(siteWorkerLogs) :
          siteWorkerLogs[j].Date = getTodayDateString
              => inCurrentMonth(siteWorkerLogs[j].Date, clock)
    /\ \A j \in 1..Len(siteMaterialLogs) :
          siteMaterialLogs[j].Date = getTodayDateString
              => inCurrentMonth(siteMaterialLogs[j].Date, clock)

\* C22: when no SalaryPaid and no TotalCost is negative, getProfileDashboardData
\* returns todayExpense <= monthExpense at every date and time of day, the first and
\* the last day of a month included: the logs counted as today's are among those
\* counted as this month's.
C22_TodayWithinMonth ==
    AmountsNonNegative =>
        \A clock \in Clocks :
            /\ TodaysLogsInMonth(clock)
            /\ getProfileDashboardDataResult(clock).value.todayExpense
                  <= getProfileDashboardDataResult(clock).value.monthExpense

\* the details on display are those of the site navigated to
DetailsOfCurrentSite ==
    (page = "site-details" /\ siteDetails # {})
        => \A d \in siteDetails : d.site.SiteID = currentSiteId

\* a getSiteDetails request is in flight
SiteDetailsInFlight == \E i \in 1..Len(requests) : requests[i].op = "getSiteDetails"

\* on the home page, once no site-details request is in flight, no details are held
NoDetailsAtHome ==
    (page = "home" /\ ~SiteDetailsInFlight) => siteDetails = {}

\* a response that arrives sets siteDetails only if it is for the site of the
\* current navigation
StaleResponseDropped ==
    \A i \in 1..Len(requests) :
        (siteDetailsSettles(i) /\ siteDetails' # siteDetails)
            => (page = "site-details" /\ requests[i].siteId = currentSiteId)

\* C23: however navigation and the responses of pending getSiteDetails calls
\* interleave, on the page site-details the details held are those of
\* currentSiteId, on the page home with no site-details request in flight none
\* are held, and a response for a site navigated to earlier does not overwrite the
\* state of the current navigation.
C23_DetailsFollowNavigation ==
    /\ [](DetailsOfCurrentSite /\ NoDetailsAtHome)
    /\ [][UNCHANGED app \/ StaleResponseDropped]_allVars

====
